---- MODULE Spec2Model ----
(***************************************************************************)
(* Model of master_orchestrator.py: the per-product-type pipeline over the *)
(* stages WF_A..WF_D, its retry loop, its failure classification and the   *)
(* state line it keeps in the product type's description.                  *)
(*                                                                         *)
(* Spec: successive executions of main() on one product type whose         *)
(* description holds only state lines written by the orchestrator.  The    *)
(* DefectDojo calls (get_product_type, patch_product_type_state) return    *)
(* normally; a stage invocation may return any step result or raise.       *)
(* SpecClassify: is_transient_result and the retry test applied to every   *)
(* step result with a bounded error list.                                  *)
(* SpecCodec: one state write applied to every bounded description, and    *)
(* the read of what was written.                                           *)
(* SpecForeign: Spec started from a state line of another writer.          *)
(* SpecCrash: Spec with the process stopped between two stage invocations. *)
(* SpecBatch: one execution over a list of product types in which every    *)
(* DefectDojo call can fail.                                               *)
(* SpecNormalize: normalize_workflow_result applied to response bodies.    *)
(* SpecResponses: executions on an unchanged product type with stages that *)
(* also answer with bodies without a result, bodies that are no JSON       *)
(* object and unmarked failures.                                           *)
(* SpecRace: two executions of main() interleaved on one product type.     *)
(* SpecBackoff: one execution with any --retry-backoff-seconds, the sleeps *)
(* before its retries recorded.                                            *)
(* SpecApiCall: one call of api_call of acunetix_sync_pt.py with any       *)
(* sequence of HTTP outcomes.                                              *)
(* SpecProgress: Spec with the history of the stage successes.             *)
(* SpecStop: Spec with the history of the durable stops.                   *)
(* SpecBudget: one execution over MaxIds ids, its stage invocations        *)
(* counted; SpecBudgetLive adds the weak fairness of its steps.            *)
(***************************************************************************)
EXTENDS Integers, Sequences, FiniteSets, TLC

\* ------------------------------------------------------------------ bounds
MaxRuns == 3              \* orchestrator executions in one behaviour
MaxRetriesBound == 2      \* --max-retries ranges over 0..MaxRetriesBound
NumVersions == 2          \* values of the product type's `updated` field
MaxErrors == 2            \* length of a step result's error list (SpecClassify)
MaxLines == 3             \* lines of a description (SpecCodec)
MaxIds == 2               \* length of the id list of a batch (SpecBatch, SpecBudget)
MaxResponseRuns == 2      \* orchestrator executions in one behaviour (SpecResponses)
MaxBackoff == 2           \* --retry-backoff-seconds ranges over 1..MaxBackoff (SpecBackoff)

\* --------------------------------------------------------------- constants
STAGES == <<"WF_A", "WF_B", "WF_C", "WF_D">>
FINAL_STAGE == STAGES[Len(STAGES)]
SUCCESS_STATUSES == {"success", "skipped", "no_changes", "already_running", "skipped_recent"}
TRANSIENT_KEYWORDS == {"timeout", "tempor", "rate", "429", "5xx", "503", "502", "504", "connection", "unavailable"}
\* markers tested on line 155
AUTH_MARKERS == {"401", "403", "invalid", "validation"}

None == "None"            \* Python None for string-valued fields
NoHash == <<>>            \* None / missing key for the two hash fields
NoError == [stage |-> None, status |-> None, errors |-> <<>>]   \* last_error = None
NoRun == 0                \* last_run_at = None

\* the --product-type-ids argument of every run, line 229
PtIds == << 1 >>
StageSet == {STAGES[i] : i \in 1..Len(STAGES)}

\* ------------------------------------------------------------ pure helpers
\* An error descriptor is represented by the set of marker keywords that
\* occur in its serialised text (json.dumps(err).lower()); `kw in text`
\* is membership in that set.
TextContains(text, kw) == kw \in text

\* is_transient_result, lines 150-159: the error list is scanned in order and
\* the first descriptor carrying any marker decides.
RECURSIVE ScanErrors(_)
ScanErrors(errors) ==
    IF errors = <<>> THEN FALSE
    ELSE LET text == Head(errors) IN
         IF \E m \in AUTH_MARKERS : TextContains(text, m) THEN FALSE
         ELSE IF \E k \in TRANSIENT_KEYWORDS : TextContains(text, k) THEN TRUE
         ELSE ScanErrors(Tail(errors))

is_transient_result_m(step_result) ==
    IF step_result.status = "timeout" THEN TRUE
    ELSE step_result.errors = <<>> \/ ScanErrors(step_result.errors)
is_transient_result(step_result) ==
    IF step_result.status = "timeout" THEN TRUE
    ELSE ScanErrors(step_result.errors)

\* an error list with an authentication/validation marker in some descriptor
HasAuthMarker(errors) ==
    \E i \in 1..Len(errors) : \E m \in AUTH_MARKERS : TextContains(errors[i], m)
\* an error list with a 401/403 signal in some descriptor
AuthClass(errors) ==
    \E i \in 1..Len(errors) : \E m \in {"401", "403"} : TextContains(errors[i], m)

\* is_transient_exception, lines 141-147
TransientExceptionTypes == {"Timeout", "ConnectionError", "ChunkedEncodingError"}
is_transient_exception_m(exc) == TRUE
is_transient_exception(exc) == exc \in TransientExceptionTypes

\* exceptions execute_workflow can raise: the three transient types and
\* HTTPError from raise_for_status (line 125)
Exceptions == TransientExceptionTypes \cup {"HTTPError"}

IndexOf(stage) == CHOOSE i \in 1..Len(STAGES) : STAGES[i] = stage

\* next_stage, lines 162-171
next_stage_m(st) ==
    LET current == st.current_stage IN
    IF current = None THEN STAGES[1]
    ELSE IF current \notin StageSet THEN STAGES[1]
    ELSE IF IndexOf(current) >= Len(STAGES) - 1 THEN None
    ELSE STAGES[IndexOf(current) + 1]
next_stage(st) ==
    LET current == st.current_stage IN
    IF current = None THEN STAGES[1]
    ELSE IF current \notin StageSet THEN STAGES[1]
    ELSE IF IndexOf(current) >= Len(STAGES) THEN None
    ELSE STAGES[IndexOf(current) + 1]

\* input_hash_for_pt, lines 174-179: SHA-256 of the canonical JSON of
\* {name, updated}; represented by the hashed pair (collision-free).
input_hash_for_pt(p) == <<p.name, p.updated>>

\* state.setdefault(...) of lines 236-241 applied to the empty dict; the two
\* hash keys are absent and read as None through .get
DefaultState ==
    [current_stage |-> None, last_success_stage |-> None, last_run_at |-> NoRun,
     last_error |-> NoError, retry_count |-> 0, pipeline_status |-> "idle",
     input_hash |-> NoHash, last_success_input_hash |-> NoHash]

\* A description is the sequence of its lines (str.splitlines).  A line is
\* represented by what the codec looks at: the number of whitespace
\* characters it begins with (lead), whether STATE_PREFIX follows them
\* (marker), and the text after that (body).  The body of a marker line is
\* "json" when it parses as the JSON of `state`; a line with an empty body
\* and no marker is blank.
TextLine(t) == [lead |-> 0, marker |-> FALSE, body |-> t, state |-> DefaultState]
StateLine(s) == [lead |-> 0, marker |-> TRUE, body |-> "json", state |-> s]
\* line.startswith(STATE_PREFIX), lines 43 and 52
IsStateLine(line) == line.lead = 0 /\ line.marker
IsBlank(line) == ~line.marker /\ line.body = ""

\* str.strip() of the joined text, line 54: leading and trailing blank lines
\* and the whitespace the first line begins with are removed (the text ends
\* with the JSON of the state line, so there is no trailing whitespace to
\* remove inside the last line)
RECURSIVE LStripLines(_)
LStripLines(lines) ==
    IF lines = <<>> THEN <<>>
    ELSE IF IsBlank(Head(lines)) THEN LStripLines(Tail(lines))
    ELSE <<[Head(lines) EXCEPT !.lead = 0]>> \o Tail(lines)
RECURSIVE RStripLines(_)
RStripLines(lines) ==
    IF lines = <<>> THEN <<>>
    ELSE IF IsBlank(lines[Len(lines)]) THEN RStripLines(SubSeq(lines, 1, Len(lines) - 1))
    ELSE lines
Strip(lines) == RStripLines(LStripLines(lines))

\* read_state_from_description, lines 41-48, followed by the setdefaults: the
\* first state line decides; a payload that does not parse gives {}
RECURSIVE read_state_from_description(_)
read_state_from_description(description) ==
    IF description = <<>> THEN DefaultState
    ELSE IF IsStateLine(Head(description))
         THEN IF Head(description).body = "json" THEN Head(description).state
              ELSE DefaultState
    ELSE read_state_from_description(Tail(description))

\* write_state_to_description, lines 51-54
write_state_to_description_m(description, st) ==
    LET old == read_state_from_description(description) IN
    IF /\ old.input_hash = st.input_hash /\ old.last_success_stage # None
       /\ (st.last_success_stage = None
           \/ IndexOf(st.last_success_stage) < IndexOf(old.last_success_stage))
    THEN description
    ELSE Strip(Append(SelectSeq(description, LAMBDA line : ~IsStateLine(line)), StateLine(st)))
write_state_to_description(description, st) ==
    Strip(Append(SelectSeq(description, LAMBDA line : ~IsStateLine(line)), StateLine(st)))

\* the full-skip test, lines 245-250
FullSkip_m(st, h) ==
    /\ st.last_success_input_hash # NoHash
    /\ h = st.last_success_input_hash
    /\ st.last_success_stage = STAGES[1]
    /\ st.last_error = NoError
FullSkip(st, h) ==
    /\ st.last_success_input_hash # NoHash
    /\ h = st.last_success_input_hash
    /\ st.last_success_stage = FINAL_STAGE
    /\ st.last_error = NoError

\* the state the skip path writes, lines 252-254
SkipState_m(st, h, now) ==
    [st EXCEPT !.input_hash = h, !.pipeline_status = "skipped_no_change",
               !.last_run_at = now, !.last_success_stage = None]
SkipState(st, h, now) ==
    [st EXCEPT !.input_hash = h, !.pipeline_status = "skipped_no_change",
               !.last_run_at = now]

\* the reset of the progress markers, lines 259-263
ResetProgress_m(st, h) ==
    IF h # st.input_hash
    THEN [st EXCEPT !.last_success_stage = None, !.last_error = NoError, !.retry_count = 0]
    ELSE st
ResetProgress(st, h) ==
    IF h # st.input_hash
    THEN [st EXCEPT !.current_stage = None, !.last_success_stage = None,
                    !.last_error = NoError, !.retry_count = 0]
    ELSE st

\* the durable-stop test, line 265
DurableStop_m(st, h, maxr) ==
    /\ st.last_error # NoError
    /\ h = st.input_hash
    /\ st.retry_count > maxr
DurableStop(st, h, maxr) ==
    /\ st.last_error # NoError
    /\ h = st.input_hash
    /\ st.retry_count >= maxr

\* the state the durable stop writes, lines 267-268
StopState_m(st, now) ==
    [st EXCEPT !.pipeline_status = "failed", !.last_run_at = now, !.retry_count = 0]
StopState(st, now) ==
    [st EXCEPT !.pipeline_status = "failed", !.last_run_at = now]

\* the retry guard `attempt < args.max_retries`, lines 307 and 316
\* the sleep before a retry, lines 307 and 317
Backoff_m(base, att) == base
Backoff(base, att) == base * 2^att

CanRetry_m(att, maxr) == att <= maxr
CanRetry(att, maxr) == att < maxr

\* step_ok, lines 316 and 325
StepOk_m(step_result) == step_result.ok
StepOk(step_result) == step_result.ok /\ step_result.status \in SUCCESS_STATUSES

\* the stage resolved at the top of the stage loop, lines 278-280
ResolveStage_m(st) == STAGES[1]
ResolveStage(st) == IF st.current_stage = None THEN STAGES[1] ELSE st.current_stage

\* the state after the last stage succeeded, lines 343-346
TerminalSuccess_m(st, h) ==
    [st EXCEPT !.current_stage = None, !.pipeline_status = "success"]
TerminalSuccess(st, h) ==
    [st EXCEPT !.current_stage = None, !.last_success_input_hash = h,
               !.pipeline_status = "success"]

\* line 347: the successor becomes the current stage
AdvanceStage_m(st, nxt) == st
AdvanceStage(st, nxt) == [st EXCEPT !.current_stage = nxt]

\* the state after a successful step, lines 338-348
RecordSuccess_m(st, stage, h) ==
    LET s1 == [st EXCEPT !.last_success_stage = stage, !.last_error = NoError]
        nxt == next_stage([current_stage |-> stage])
    IN IF nxt = None THEN TerminalSuccess(s1, h)
       ELSE AdvanceStage(s1, nxt)
RecordSuccess(st, stage, h) ==
    LET s1 == [st EXCEPT !.last_success_stage = stage, !.last_error = NoError,
                         !.retry_count = 0]
        nxt == next_stage([current_stage |-> stage])
    IN IF nxt = None THEN TerminalSuccess(s1, h)
       ELSE AdvanceStage(s1, nxt)

\* pipeline_status chosen on line 359
FailureStatus(transient, retry_count, maxr) ==
    IF ~transient \/ retry_count >= maxr THEN "failed" ELSE "error"

\* the state after a failed step, lines 352-359
RecordFailure_m(st, stage, step_result, att, transient, maxr) ==
    [st EXCEPT !.last_error = [stage |-> stage, status |-> step_result.status,
                               errors |-> step_result.errors],
               !.retry_count = att + 1,
               !.current_stage = None,
               !.pipeline_status = FailureStatus(transient, att + 1, maxr)]
RecordFailure(st, stage, step_result, att, transient, maxr) ==
    [st EXCEPT !.last_error = [stage |-> stage, status |-> step_result.status,
                               errors |-> step_result.errors],
               !.retry_count = att + 1,
               !.current_stage = stage,
               !.pipeline_status = FailureStatus(transient, att + 1, maxr)]

\* lines 368-371: the item joins the report and failures are counted
Aggregate_m(res, it) ==
    IF it.status \in {"error", "failed"}
    THEN [res EXCEPT !.ok = FALSE, !.failed = res.failed + 1]
    ELSE [res EXCEPT !.items = Append(res.items, it)]
Aggregate(res, it) ==
    IF it.status \in {"error", "failed"}
    THEN [res EXCEPT !.ok = FALSE, !.failed = res.failed + 1, !.items = Append(res.items, it)]
    ELSE [res EXCEPT !.items = Append(res.items, it)]

\* the report as initialised on lines 206-217
InitialResult ==
    [ok |-> TRUE, status |-> "success", processed |-> 0, failed |-> 0,
     errors |-> <<>>, items |-> <<>>]

\* step results a stage can return (after normalisation)
StepResults ==
    { [ok |-> TRUE,  status |-> "success", errors |-> <<>>],
      [ok |-> FALSE, status |-> "error",   errors |-> << {"401"} >>],
      [ok |-> FALSE, status |-> "error",   errors |-> << {"503"} >>] }
NoResult == [ok |-> FALSE, status |-> None, errors |-> <<>>]

\* default_result, lines 26-38, with stage and product_type_id set (lines
\* 102-103): its one error descriptor is {"code": "invalid_workflow_response"}
default_result == [ok |-> FALSE, status |-> "error", errors |-> << {"invalid"} >>]

\* A response body is represented by what the normaliser looks at: whether
\* it is a JSON object (kind), the fields ok/status/errors of the object
\* itself (self), and the values found at data[0].json and at json.  Such a
\* value is an object (isdict) that may carry ok and status, or no object.
NoObj == [isdict |-> FALSE, has_ok |-> FALSE, has_status |-> FALSE,
          ok |-> FALSE, status |-> None, errors |-> <<>>]
EmptyObj == [NoObj EXCEPT !.isdict = TRUE]
ResultObj(ok, status, errors) ==
    [isdict |-> TRUE, has_ok |-> TRUE, has_status |-> TRUE,
     ok |-> ok, status |-> status, errors |-> errors]
\* no response received: the local `raw` holds {} (line 297)
NoBody == [kind |-> "none", self |-> EmptyObj, data0json |-> NoObj, json |-> NoObj]
\* a response whose body is the result r itself
BodyOf(r) ==
    [kind |-> "dict", self |-> ResultObj(r.ok, r.status, r.errors),
     data0json |-> NoObj, json |-> NoObj]

\* normalize_workflow_result, lines 83-104
Candidate(body) ==
    IF body.json.isdict THEN body.json
    ELSE IF body.data0json.isdict THEN body.data0json
    ELSE body.self
normalize_workflow_result(body) ==
    IF body.kind = "dict" /\ Candidate(body).has_ok /\ Candidate(body).has_status
    THEN [ok |-> Candidate(body).ok, status |-> Candidate(body).status,
          errors |-> Candidate(body).errors]
    ELSE default_result

\* the workflow ids given on the command line, lines 198-203
AllIds == [s \in StageSet |-> "id"]
WfIdConfigs == {AllIds, [AllIds EXCEPT !["WF_C"] = ""]}
\* missing_wf_ids, line 219
missing_wf_ids_m(cfg) == {s \in {STAGES[1]} : cfg[s] = ""}
missing_wf_ids(cfg) == {s \in StageSet : cfg[s] = ""}


\* ------------------------------------------------------------------- state
VARIABLES
    pt,                 \* DefectDojo: id -> [name, updated] of the product type
    description,        \* DefectDojo: id -> the description, a sequence of lines
    pc,                 \* position of main(): idle, loop, invoke, skip_patch,
                        \* stop_patch, adv_patch, final_patch
    run,                \* number of executions started (the clock of now_iso)
    max_retries,        \* args.max_retries of the current execution
    retry_backoff_seconds, \* args.retry_backoff_seconds, line 195
    stage_to_id,        \* lines 198-203
    product_type_ids,   \* the parsed --product-type-ids of the execution
    printed,            \* number of reports the execution wrote to stdout
    ids,                \* the product type ids still to process
    pt_id,              \* the product type being processed
    state,              \* the in-memory pipeline state
    current_input_hash, \* line 242
    item,               \* the report item of the product type
    attempt,            \* line 294
    transient_failure,  \* lines 295 and 315
    step_result,        \* the last normalised step result
    raw,                \* the body of the last stage response, line 297
    result,             \* the batch report
    exit_code,          \* the value main() returned
    calls,              \* history of the stage invocations made for pt_id in
                        \* this run: the first stage invoked, the last one,
                        \* and how many times in a row the last was invoked
    obs,                \* history: what held when pt_id's processing began
                        \* and what happened during it
    hist,               \* history: id -> how the previous processing ended
    api,                \* a call of api_call of acunetix_sync_pt: its position,
                        \* retries, attempt, last error and the outcomes of
                        \* the requests it sent
    trail,              \* history kept by SpecProgress only
    peer                \* a second execution of main() on the same product
                        \* type: its position, in-memory state, fingerprint,
                        \* attempt, item status and the stages it invoked

vars == <<pt, description, pc, run, max_retries, stage_to_id, product_type_ids,
          printed, ids, pt_id, state,
          current_input_hash, item, attempt, transient_failure, step_result,
          raw, result, exit_code, calls, obs, hist, peer, retry_backoff_seconds,
          api, trail>>

\* the variables of the first execution and of DefectDojo but `description`
own_vars == <<api, trail, pt, pc, run, max_retries, retry_backoff_seconds, stage_to_id, product_type_ids, printed, ids,
              pt_id, state, current_input_hash, item, attempt, transient_failure,
              step_result, raw, result, exit_code, calls, obs, hist>>

Entities == {PtIds[i] : i \in 1..Len(PtIds)}
Hashes == {input_hash_for_pt([name |-> "pt", updated |-> u]) : u \in 1..NumVersions}

NoCalls == [first |-> None, last |-> None, count |-> 0]
Invoked(c, stage) ==
    [first |-> IF c.first = None THEN stage ELSE c.first,
     last  |-> stage,
     count |-> IF c.last = stage THEN c.count + 1 ELSE 1]

NoFail == [kind |-> "none", stage |-> None, fp |-> NoHash]
NoCrash == [completed |-> None, flushed |-> FALSE, fp |-> NoHash]
\* okFp: the fingerprint the pipeline last completed for; fail: how the last
\* processing failed; done: the stages that succeeded since the product
\* type last changed; crash: the stage that had just succeeded when the
\* process stopped, and whether its state write had been made
InitHist == [okFp |-> NoHash, fail |-> NoFail, done |-> {}, crash |-> NoCrash]
InitObs ==
    [idem |-> FALSE,          \* the pipeline completed for this fingerprint and
                              \* every run since saw the same fingerprint
     resume |-> None,         \* stage that failed fatally in the previous run
                              \* of this product type, fingerprint unchanged
     heal |-> None,           \* stage that exhausted its transient retries in
                              \* the previous run, fingerprint unchanged
     stop |-> FALSE,          \* the durable-stop test held on the stored state
     resetCase |-> FALSE,     \* fingerprint differed from the stored
                              \* input_hash and stored current_stage was set
     succeeded |-> {},        \* stages that succeeded during this processing
     onlyTransient |-> TRUE,  \* every invocation of the current stage so far
                              \* returned a transient failure
     exhausted |-> None,      \* stage whose transient retries ran out
     raised |-> FALSE,        \* the processing ended by a raised exception
     before |-> <<>>,         \* the description a single write was applied to
     given |-> DefaultState,  \* the state a single write was given
     crash |-> NoCrash,       \* how the previous processing of this product
                              \* type was cut short, fingerprint unchanged
     prior |-> 0,             \* the retry_count stored with an outstanding
                              \* last_error for this fingerprint at the start
     exc |-> "none",          \* what the latest invocation raised: nothing, a
                              \* connectivity/timeout exception ("transient")
                              \* or another exception ("other")
     delays |-> <<>>,         \* the sleeps of the current stage's attempt loop
     authAt |-> None,         \* stage that failed with a 401/403 signal, in a
                              \* step result or as a raised HTTPError
     dup |-> FALSE]           \* a stage was invoked that had already succeeded
                              \* since the product type last changed

StoredState(id) == read_state_from_description(description[id])

\* no call of api_call is in progress
NoApiCall ==
    [pc |-> "idle", retries |-> 0, attempt |-> 0, last |-> None, seen |-> <<>>]
\* history kept by SpecProgress (mode "progress"), SpecBudget (mode
\* "budget") and SpecStop (mode "stop") and left alone by the other
\* specifications:
\* under: fingerprint -> the stages that have succeeded under it;
\* since: the stages that have succeeded since the last reset of lines
\*        259-263; dirty: a stage was invoked since the last stage last
\* succeeded; total: the stage invocations of the execution;
\* stopped: the fingerprint under which the latest processing of the
\*        product type took the durable stop, NoHash if it did not;
\* again: the processing before this one took the durable stop under the
\*        fingerprint of this one
NoTrail ==
    [mode |-> "off", under |-> [h \in Hashes |-> {}], since |-> {}, dirty |-> FALSE,
     total |-> 0, stopped |-> NoHash, again |-> FALSE]

\* the second execution before it starts
NoPeer ==
    [pc |-> "idle", state |-> DefaultState, hash |-> NoHash, attempt |-> 0,
     item |-> "skipped", invoked |-> {}]

Init ==
    /\ pt = [e \in Entities |-> [name |-> "pt", updated |-> 1]]
    /\ description = [e \in Entities |-> << TextLine("notes") >>]
    /\ pc = "idle"
    /\ run = 0
    /\ max_retries = 0
    /\ stage_to_id = AllIds
    /\ product_type_ids = <<>>
    /\ printed = 0
    /\ ids = <<>>
    /\ pt_id = 0
    /\ state = DefaultState
    /\ current_input_hash = NoHash
    /\ item = [product_type_id |-> 0, status |-> "skipped"]
    /\ attempt = 0
    /\ transient_failure = FALSE
    /\ step_result = NoResult
    /\ raw = NoBody
    /\ peer = NoPeer
    /\ retry_backoff_seconds = 1
    /\ api = NoApiCall
    /\ trail = NoTrail
    /\ result = InitialResult
    /\ exit_code = 0
    /\ calls = NoCalls
    /\ obs = InitObs
    /\ hist = [e \in Entities |-> InitHist]

\* ----------------------------------------------------------------- actions
\* Another writer edits the product type: its `updated` field changes.  A
\* run reads name and updated once per product type (line 234), so an edit
\* made at any moment is observed exactly as an edit made between two runs.
ChangeEntity ==
    /\ pc = "idle"
    /\ \E e \in DOMAIN pt, u \in 1..NumVersions :
          /\ u # pt[e].updated
          /\ pt' = [pt EXCEPT ![e].updated = u]
          /\ hist' = [hist EXCEPT ![e].done = {}]
    /\ UNCHANGED <<api, trail, retry_backoff_seconds, peer, raw, description, pc, run,
                   max_retries, stage_to_id, product_type_ids,
                   ids, pt_id, state, current_input_hash, item, attempt,
                   transient_failure, step_result, result, exit_code, printed, calls, obs>>

\* main() starts with every workflow id set, lines 182-229
StartRun ==
    /\ pc = "idle"
    /\ run < MaxRuns
    /\ \E m \in 0..MaxRetriesBound : max_retries' = m
    /\ \E cfg \in WfIdConfigs :
          /\ missing_wf_ids(cfg) = {}
          /\ stage_to_id' = cfg
    /\ run' = run + 1
    /\ result' = InitialResult
    /\ printed' = 0
    /\ product_type_ids' = PtIds
    /\ ids' = PtIds
    /\ pc' = "loop"
    /\ UNCHANGED <<api, trail, retry_backoff_seconds, peer, raw, pt, description,
                   pt_id, state, current_input_hash, item, attempt,
                   transient_failure, step_result, exit_code, calls, obs, hist>>

\* main() starts with a workflow id missing, lines 219-227
ConfigError ==
    /\ pc = "idle"
    /\ run < MaxRuns
    /\ \E cfg \in WfIdConfigs, m \in 0..MaxRetriesBound :
          /\ missing_wf_ids(cfg) # {}
          /\ stage_to_id' = cfg
          /\ max_retries' = m
          /\ result' = [InitialResult EXCEPT
                          !.ok = FALSE, !.status = "error",
                          !.errors = << [code |-> "missing_workflow_ids",
                                         details |-> missing_wf_ids(cfg)] >>]
    /\ run' = run + 1
    /\ exit_code' = 1
    /\ printed' = 1
    /\ product_type_ids' = <<>>
    /\ UNCHANGED <<api, trail, retry_backoff_seconds, peer, raw, pt, description, pc,
                   ids, pt_id, state, current_input_hash, item,
                   attempt, transient_failure, step_result, calls, obs, hist>>

\* main() starts with every workflow id set and a --product-type-ids value
\* with an element that is not an integer: int() raises ValueError on line
\* 229, outside every try, and the interpreter ends the process with a
\* traceback and exit status 1 before anything is printed to stdout
InvalidIdList ==
    /\ pc = "idle"
    /\ run < MaxRuns
    /\ \E cfg \in WfIdConfigs :
          /\ missing_wf_ids(cfg) = {}
          /\ stage_to_id' = cfg
    /\ run' = run + 1
    /\ result' = InitialResult
    /\ printed' = 0
    /\ exit_code' = 1
    /\ product_type_ids' = <<>>
    /\ UNCHANGED <<api, trail, retry_backoff_seconds, peer, raw, pt, description, pc,
                   max_retries, ids, pt_id, state,
                   current_input_hash, item, attempt, transient_failure, step_result,
                   calls, obs, hist>>

\* lines 231-274: fetch the product type, decode its state and decide between
\* the full skip, the durable stop and the stage loop
BeginEntity ==
    /\ pc = "loop"
    /\ ids # <<>>
    /\ LET id == Head(ids)
           s0 == StoredState(id)
           h  == input_hash_for_pt(pt[id])
           s1 == ResetProgress(s0, h)
           it == [product_type_id |-> id, status |-> "skipped"]
           prev == hist[id]
       IN /\ pt_id' = id
          /\ ids' = Tail(ids)
          /\ current_input_hash' = h
          /\ calls' = NoCalls
          /\ attempt' = 0
          /\ transient_failure' = FALSE
          /\ step_result' = NoResult
          /\ raw' = NoBody
          /\ trail' = IF trail.mode = "progress" /\ ~FullSkip(s0, h) /\ h # s0.input_hash
                      THEN [trail EXCEPT !.since = {}]
                      ELSE IF trail.mode = "stop"
                      THEN [trail EXCEPT
                              !.again = (trail.stopped = h),
                              !.stopped = IF ~FullSkip(s0, h) /\ DurableStop(s1, h, max_retries)
                                          THEN h ELSE NoHash]
                      ELSE trail
          /\ obs' = [InitObs EXCEPT
                       !.idem = (prev.okFp # NoHash /\ prev.okFp = h),
                       !.resume = IF prev.fail.kind = "fatal" /\ prev.fail.fp = h
                                  THEN prev.fail.stage ELSE None,
                       !.heal = IF prev.fail.kind = "exhausted" /\ prev.fail.fp = h
                                THEN prev.fail.stage ELSE None,
                       !.stop = (s0.last_error # NoError /\ h = s0.input_hash
                                 /\ s0.retry_count >= max_retries),
                       !.resetCase = (h # s0.input_hash /\ s0.current_stage # None),
                       !.crash = IF prev.crash.fp = h THEN prev.crash ELSE NoCrash,
                       !.prior = IF s0.last_error # NoError /\ h = s0.input_hash
                                 THEN s0.retry_count ELSE 0]
          /\ hist' = [hist EXCEPT ![id].okFp = IF prev.okFp = h THEN h ELSE NoHash,
                                   ![id].fail = NoFail,
                                   ![id].crash = NoCrash]
          /\ IF FullSkip(s0, h)
             THEN /\ item' = [it EXCEPT !.status = "skipped_no_change"]
                  /\ state' = SkipState(s0, h, run)
                  /\ pc' = "skip_patch"
             ELSE IF DurableStop(s1, h, max_retries)
             THEN /\ item' = [it EXCEPT !.status = "failed"]
                  /\ state' = StopState(s1, run)
                  /\ pc' = "stop_patch"
             ELSE /\ item' = it
                  /\ state' = [s1 EXCEPT !.input_hash = h, !.pipeline_status = "running"]
                  /\ pc' = "invoke"
    /\ UNCHANGED <<api, retry_backoff_seconds, peer, pt, description, run, max_retries,
                   stage_to_id, product_type_ids, result, exit_code, printed>>

\* patch_product_type_state, lines 71-80
Patched_m == description
Patched == [description EXCEPT ![pt_id] = write_state_to_description(description[pt_id], state)]

\* lines 255-257: the skip path writes the state and continues
PatchSkip ==
    /\ pc = "skip_patch"
    /\ description' = Patched
    /\ result' = [result EXCEPT !.items = Append(result.items, item)]
    /\ pc' = "loop"
    /\ UNCHANGED <<api, trail, retry_backoff_seconds, peer, raw, pt, run, max_retries,
                   stage_to_id, product_type_ids, ids, pt_id, state,
                   current_input_hash, item, attempt, transient_failure,
                   step_result, exit_code, printed, calls, obs, hist>>

\* lines 269-271: the durable stop writes the state and continues
PatchStop ==
    /\ pc = "stop_patch"
    /\ description' = Patched
    /\ result' = [result EXCEPT !.items = Append(result.items, item)]
    /\ pc' = "loop"
    /\ UNCHANGED <<api, trail, retry_backoff_seconds, peer, raw, pt, run, max_retries,
                   stage_to_id, product_type_ids, ids, pt_id, state,
                   current_input_hash, item, attempt, transient_failure,
                   step_result, exit_code, printed, calls, obs, hist>>

\* lines 349-350 and 278-295: the state is written after a stage that has a
\* successor, and the next stage's attempt loop starts
PatchAdvance ==
    /\ pc = "adv_patch"
    /\ description' = Patched
    /\ attempt' = 0
    /\ transient_failure' = FALSE
    /\ obs' = [obs EXCEPT !.onlyTransient = TRUE, !.delays = <<>>]
    /\ pc' = "invoke"
    /\ UNCHANGED <<api, trail, retry_backoff_seconds, peer, raw, pt, run, max_retries,
                   stage_to_id, product_type_ids, ids, pt_id, state,
                   current_input_hash, item, step_result, result, exit_code, printed,
                   calls, hist>>

\* lines 363 and 368-371: the state is written when the stage loop was left
PatchFinal ==
    /\ pc = "final_patch"
    /\ description' = Patched
    /\ result' = Aggregate(result, item)
    /\ hist' = [hist EXCEPT ![pt_id].okFp =
                   IF FINAL_STAGE \in obs.succeeded THEN current_input_hash ELSE NoHash]
    /\ pc' = "loop"
    /\ UNCHANGED <<api, trail, retry_backoff_seconds, peer, raw, pt, run, max_retries,
                   stage_to_id, product_type_ids, ids, pt_id, state,
                   current_input_hash, item, attempt, transient_failure,
                   step_result, exit_code, printed, calls, obs>>

\* lines 373-377
FinishRun ==
    /\ pc = "loop"
    /\ ids = <<>>
    /\ result' = [result EXCEPT !.processed = Len(result.items),
                                !.status = IF result.ok THEN "success" ELSE "error"]
    /\ exit_code' = IF result.ok THEN 0 ELSE 1
    /\ printed' = printed + 1
    /\ pc' = "idle"
    \* the process exits: its memory is gone, the printed report remains
    /\ pt_id' = 0
    /\ state' = DefaultState
    /\ current_input_hash' = NoHash
    /\ item' = [product_type_id |-> 0, status |-> "skipped"]
    /\ attempt' = 0
    /\ transient_failure' = FALSE
    /\ step_result' = NoResult
    /\ raw' = NoBody
    /\ calls' = NoCalls
    /\ obs' = InitObs
    /\ UNCHANGED <<api, trail, retry_backoff_seconds, peer, pt, description, run,
                   max_retries, stage_to_id, product_type_ids,
                   ids, hist>>

\* lookup of the workflow id, line 281
WfId(stage) == IF stage \in DOMAIN stage_to_id THEN stage_to_id[stage] ELSE ""

\* history: `stage` is invoked (line 302) and succeeds or not
Trailed(stage, succeeded) ==
    IF trail.mode = "progress"
    THEN [trail EXCEPT !.since = IF succeeded THEN @ \cup {stage} ELSE @,
                       !.under[current_input_hash] = IF succeeded THEN @ \cup {stage} ELSE @,
                       !.dirty = ~(succeeded /\ stage = FINAL_STAGE)]
    ELSE IF trail.mode = "budget"
    THEN [trail EXCEPT !.total = @ + 1]
    ELSE trail

\* the attempt counter after a retry, lines 308 and 318
NextAttempt_m(att) == att
NextAttempt(att) == att + 1

\* history: `stage` is invoked (line 302)
Seen(stage) == [obs EXCEPT !.dup = obs.dup \/ stage \in hist[pt_id].done]
SeenResult(stage, r) ==
    [Seen(stage) EXCEPT !.exc = "none",
                        !.authAt = IF ~StepOk(r) /\ AuthClass(r.errors)
                                   THEN stage ELSE obs.authAt]
SeenRaise(stage, exc) ==
    [Seen(stage) EXCEPT !.exc = IF exc \in TransientExceptionTypes
                                THEN "transient" ELSE "other",
                        !.authAt = IF exc = "HTTPError" THEN stage ELSE obs.authAt]

\* lines 306-313 and 364-371: execute_workflow raised `exc`
StageRaises(stage, exc) ==
    IF is_transient_exception(exc) /\ CanRetry(attempt, max_retries)
    THEN \* retry after the backoff sleep
         /\ attempt' = NextAttempt(attempt)
         /\ state' = [state EXCEPT !.retry_count = attempt']
         /\ pc' = "invoke"
         /\ UNCHANGED <<item, result, hist, transient_failure, step_result>>
         /\ obs' = [SeenRaise(stage, exc) EXCEPT
                       !.delays = Append(obs.delays, Backoff(retry_backoff_seconds, attempt))]
    ELSE \* re-raised, caught on line 364: nothing is written
         /\ item' = [item EXCEPT !.status = "error"]
         /\ result' = Aggregate(result, item')
         /\ hist' = [hist EXCEPT ![pt_id].okFp = NoHash,
                                  ![pt_id].fail =
                                     [kind |-> IF is_transient_exception(exc)
                                               THEN "exhausted" ELSE "fatal",
                                      stage |-> stage, fp |-> current_input_hash]]
         /\ obs' = [SeenRaise(stage, exc) EXCEPT !.raised = TRUE,
                               !.onlyTransient = obs.onlyTransient /\ is_transient_exception(exc),
                               !.exhausted = IF is_transient_exception(exc)
                                             THEN stage ELSE obs.exhausted]
         /\ pc' = "loop"
         /\ UNCHANGED <<attempt, state, transient_failure, step_result>>

\* lines 315-361: execute_workflow returned the normalised result r
StageReturns(stage, r) ==
    LET tf == is_transient_result(r) IN
    /\ step_result' = r
    /\ transient_failure' = tf
    /\ IF ~StepOk(r) /\ tf /\ CanRetry(attempt, max_retries)
       THEN \* retry after the backoff sleep
            /\ attempt' = NextAttempt(attempt)
            /\ state' = [state EXCEPT !.retry_count = attempt']
            /\ pc' = "invoke"
            /\ obs' = [SeenResult(stage, r) EXCEPT
                          !.delays = Append(obs.delays, Backoff(retry_backoff_seconds, attempt))]
            /\ UNCHANGED <<item, result, hist>>
       ELSE LET s1 == [state EXCEPT !.last_run_at = run] IN
            IF StepOk(r)
            THEN /\ state' = RecordSuccess(s1, stage, current_input_hash)
                 /\ obs' = [SeenResult(stage, r) EXCEPT !.succeeded = obs.succeeded \cup {stage},
                                       !.onlyTransient = FALSE]
                 /\ hist' = [hist EXCEPT ![pt_id].done = hist[pt_id].done \cup {stage}]
                 /\ IF next_stage([current_stage |-> stage]) = None
                    THEN /\ item' = [item EXCEPT !.status = "success"]
                         /\ pc' = "final_patch"
                    ELSE /\ item' = item
                         /\ pc' = "adv_patch"
                 /\ UNCHANGED <<attempt, result>>
            ELSE /\ state' = RecordFailure(s1, stage, r, attempt, tf, max_retries)
                 /\ item' = [item EXCEPT !.status =
                               IF state'.pipeline_status = "failed" THEN "failed" ELSE "error"]
                 /\ obs' = [SeenResult(stage, r) EXCEPT !.onlyTransient = obs.onlyTransient /\ tf,
                                       !.exhausted = IF tf THEN stage ELSE obs.exhausted]
                 /\ hist' = [hist EXCEPT ![pt_id].fail =
                                [kind |-> IF tf THEN "exhausted" ELSE "fatal",
                                 stage |-> stage, fp |-> current_input_hash]]
                 /\ pc' = "final_patch"
                 /\ UNCHANGED <<attempt, result>>

\* lines 278-361: one invocation of the current stage and the handling of
\* its outcome
InvokeStage ==
    /\ pc = "invoke"
    /\ LET stage == ResolveStage(state) IN
       IF WfId(stage) = ""
       THEN \* lines 282-286
            /\ item' = [item EXCEPT !.status = "error"]
            /\ state' = [state EXCEPT !.last_error =
                           [stage |-> stage, status |-> "workflow_id_not_set", errors |-> <<>>]]
            /\ pc' = "final_patch"
            /\ UNCHANGED <<attempt, transient_failure, step_result, raw, result, calls,
                           obs, hist, trail>>
       ELSE /\ calls' = Invoked(calls, stage)
            /\ \/ \E exc \in Exceptions :
                     /\ raw' = NoBody
                     /\ trail' = Trailed(stage, FALSE)
                     /\ StageRaises(stage, exc)
               \/ \E r \in StepResults :
                     /\ raw' = BodyOf(r)
                     /\ trail' = Trailed(stage, StepOk(r))
                     /\ StageReturns(stage, r)
    /\ UNCHANGED <<api, retry_backoff_seconds, peer, pt, description, run, max_retries,
                   stage_to_id, product_type_ids, ids, pt_id,
                   current_input_hash, exit_code, printed>>

\* lines 302, 126-127 and 315-361: the stage answers with the response body
\* `body`.  After the attempt loop, summarize_raw_response (line 331) calls
\* raw.get: for a body that is no JSON object this raises AttributeError,
\* which the handler of line 364 catches before anything is written.
StageResponds(stage, body) ==
    LET r == normalize_workflow_result(body)
        retried == ~StepOk(r) /\ is_transient_result(r) /\ CanRetry(attempt, max_retries)
    IN /\ raw' = body
       /\ IF body.kind = "dict" \/ retried
          THEN StageReturns(stage, r)
          ELSE /\ step_result' = r
               /\ transient_failure' = is_transient_result(r)
               /\ item' = [item EXCEPT !.status = "error"]
               /\ result' = Aggregate(result, item')
               /\ hist' = [hist EXCEPT ![pt_id].okFp = NoHash,
                                        ![pt_id].fail = [kind |-> "fatal", stage |-> stage,
                                                         fp |-> current_input_hash]]
               /\ obs' = [SeenResult(stage, r) EXCEPT !.raised = TRUE,
                                                      !.onlyTransient = FALSE]
               /\ pc' = "loop"
               /\ UNCHANGED <<attempt, state>>

\* response bodies beyond the well-formed results of StepResults: an object
\* without a result, a JSON array, a failure without any marker (with an
\* empty error list and with one unmarked descriptor), a failure whose
\* error list names a 503 before a 401, and results whose ok and status
\* disagree: ok with the status "ok" that build_result of acunetix_sync_pt
\* starts from, ok with status timeout, ok with another success status,
\* and a success status without ok
ResponseBodies ==
    { [kind |-> "dict", self |-> EmptyObj, data0json |-> NoObj, json |-> NoObj],
      [kind |-> "list", self |-> NoObj, data0json |-> NoObj, json |-> NoObj],
      BodyOf([ok |-> FALSE, status |-> "error", errors |-> <<>>]),
      BodyOf([ok |-> FALSE, status |-> "error", errors |-> << {} >>]),
      BodyOf([ok |-> FALSE, status |-> "error", errors |-> << {"503"}, {"401"} >>]),
      BodyOf([ok |-> TRUE, status |-> "ok", errors |-> <<>>]),
      BodyOf([ok |-> TRUE, status |-> "timeout", errors |-> <<>>]),
      BodyOf([ok |-> TRUE, status |-> "already_running", errors |-> <<>>]),
      BodyOf([ok |-> FALSE, status |-> "success", errors |-> <<>>]) }

InvokeStageBody ==
    /\ pc = "invoke"
    /\ LET stage == ResolveStage(state) IN
          /\ WfId(stage) # ""
          /\ calls' = Invoked(calls, stage)
          /\ \E body \in ResponseBodies : StageResponds(stage, body)
    /\ UNCHANGED <<api, trail, retry_backoff_seconds, peer, pt, description, run,
                   max_retries, stage_to_id, product_type_ids, ids,
                   pt_id, current_input_hash, exit_code, printed>>

Next ==
    \/ ChangeEntity
    \/ StartRun
    \/ ConfigError
    \/ InvalidIdList
    \/ BeginEntity
    \/ InvokeStage
    \/ PatchAdvance
    \/ PatchFinal
    \/ PatchSkip
    \/ PatchStop
    \/ FinishRun

Spec == Init /\ [][Next]_vars

\* SpecResponses: successive executions of main() on an unchanged product
\* type, with the stages also answering with ResponseBodies
\* main() starts with every workflow id set, lines 182-229
StartResponses ==
    /\ pc = "idle"
    /\ run < MaxResponseRuns
    /\ \E m \in 0..MaxRetriesBound : max_retries' = m
    /\ stage_to_id' = AllIds
    /\ run' = run + 1
    /\ result' = InitialResult
    /\ printed' = 0
    /\ product_type_ids' = PtIds
    /\ ids' = PtIds
    /\ pc' = "loop"
    /\ UNCHANGED <<api, trail, retry_backoff_seconds, peer, raw, pt, description,
                   pt_id, state, current_input_hash, item,
                   attempt, transient_failure, step_result, exit_code, calls, obs, hist>>

NextResponses ==
    \/ StartResponses
    \/ BeginEntity
    \/ InvokeStage
    \/ InvokeStageBody
    \/ PatchAdvance
    \/ PatchFinal
    \/ PatchSkip
    \/ PatchStop
    \/ FinishRun
SpecResponses == Init /\ [][NextResponses]_vars

\* ------------------------------------------------------------- SpecRace
\* Two executions of main() process the same product type at the same time.
\* The first one is the execution of the actions above, started once; the
\* second one (`peer`) runs the same code with the same arguments, one step
\* at a time: the fetch and the decisions of lines 231-274, one invocation
\* of a stage with the handling of its outcome (lines 277-361), and one call
\* of patch_product_type_state.  DefectDojo serialises the requests, so the
\* steps of the two executions interleave in any order.
PeerId == PtIds[1]

\* main() starts once with every workflow id set, lines 182-229
StartRace ==
    /\ pc = "idle"
    /\ run = 0
    /\ \E m \in 0..MaxRetriesBound : max_retries' = m
    /\ stage_to_id' = AllIds
    /\ run' = run + 1
    /\ result' = InitialResult
    /\ printed' = 0
    /\ product_type_ids' = PtIds
    /\ ids' = PtIds
    /\ pc' = "loop"
    /\ UNCHANGED <<api, trail, retry_backoff_seconds, peer, raw, pt, description,
                   pt_id, state, current_input_hash, item,
                   attempt, transient_failure, step_result, exit_code, calls, obs, hist>>

\* lines 231-274 in the second execution
PeerBegin ==
    /\ peer.pc = "idle"
    /\ run = 1
    /\ LET s0 == StoredState(PeerId)
           h  == input_hash_for_pt(pt[PeerId])
           s1 == ResetProgress(s0, h)
       IN peer' =
            IF FullSkip(s0, h)
            THEN [NoPeer EXCEPT !.pc = "skip_patch", !.hash = h,
                                !.item = "skipped_no_change",
                                !.state = [s0 EXCEPT !.input_hash = h,
                                                     !.pipeline_status = "skipped_no_change",
                                                     !.last_run_at = run]]
            ELSE IF DurableStop(s1, h, max_retries)
            THEN [NoPeer EXCEPT !.pc = "stop_patch", !.hash = h, !.item = "failed",
                                !.state = [s1 EXCEPT !.pipeline_status = "failed",
                                                     !.last_run_at = run]]
            ELSE [NoPeer EXCEPT !.pc = "invoke", !.hash = h,
                                !.state = [s1 EXCEPT !.input_hash = h,
                                                     !.pipeline_status = "running"]]
    /\ UNCHANGED <<description, own_vars>>

\* lines 277-361 in the second execution: one invocation of its current
\* stage and the handling of the outcome
PeerInvoke ==
    /\ peer.pc = "invoke"
    /\ LET stage == ResolveStage(peer.state)
           p == [peer EXCEPT !.invoked = peer.invoked \cup {stage}]
       IN IF WfId(stage) = ""
          THEN peer' = [peer EXCEPT !.item = "error", !.pc = "final_patch",
                                    !.state.last_error =
                                        [stage |-> stage, status |-> "workflow_id_not_set",
                                         errors |-> <<>>],
                                    !.state.pipeline_status = "error"]
          ELSE \/ \E exc \in Exceptions :
                    peer' = IF is_transient_exception(exc) /\ CanRetry(peer.attempt, max_retries)
                            THEN [p EXCEPT !.attempt = peer.attempt + 1,
                                           !.state.retry_count = peer.attempt + 1]
                            ELSE [p EXCEPT !.item = "error", !.pc = "done"]
               \/ \E r \in StepResults :
                    LET tf == is_transient_result(r)
                        s1 == [peer.state EXCEPT !.last_run_at = run]
                        s2 == RecordFailure(s1, stage, r, peer.attempt, tf, max_retries)
                    IN peer' =
                         IF ~StepOk(r) /\ tf /\ CanRetry(peer.attempt, max_retries)
                         THEN [p EXCEPT !.attempt = peer.attempt + 1,
                                        !.state.retry_count = peer.attempt + 1]
                         ELSE IF StepOk(r)
                         THEN IF next_stage([current_stage |-> stage]) = None
                              THEN [p EXCEPT !.state = RecordSuccess(s1, stage, peer.hash),
                                             !.item = "success", !.pc = "final_patch"]
                              ELSE [p EXCEPT !.state = RecordSuccess(s1, stage, peer.hash),
                                             !.pc = "adv_patch"]
                         ELSE [p EXCEPT !.state = s2,
                                        !.item = IF s2.pipeline_status = "failed"
                                                 THEN "failed" ELSE "error",
                                        !.pc = "final_patch"]
    /\ UNCHANGED <<description, own_vars>>

\* patch_product_type_state, lines 71-80, called by the second execution:
\* the description is fetched again and written back with the state line
\* replaced; nothing of the stored state is compared with anything
PeerPatched(st) ==
    [description EXCEPT ![PeerId] = write_state_to_description(description[PeerId], st)]

\* lines 255, 269, 349 and 363 in the second execution
PeerPatch ==
    /\ peer.pc \in {"skip_patch", "stop_patch", "adv_patch", "final_patch"}
    /\ description' = PeerPatched(peer.state)
    /\ peer' = IF peer.pc = "adv_patch"
               THEN [peer EXCEPT !.pc = "invoke", !.attempt = 0]
               ELSE [peer EXCEPT !.pc = "done"]
    /\ UNCHANGED own_vars

NextRace ==
    \/ StartRace
    \/ BeginEntity
    \/ InvokeStage
    \/ PatchAdvance
    \/ PatchFinal
    \/ PatchSkip
    \/ PatchStop
    \/ FinishRun
    \/ PeerBegin
    \/ PeerInvoke
    \/ PeerPatch
SpecRace == Init /\ [][NextRace]_vars

\* --------------------------------------------------------- SpecProgress
\* Spec with the history of the stage successes kept in `trail`
InitProgress ==
    /\ pt = [e \in Entities |-> [name |-> "pt", updated |-> 1]]
    /\ description = [e \in Entities |-> << TextLine("notes") >>]
    /\ pc = "idle"
    /\ run = 0
    /\ max_retries = 0
    /\ stage_to_id = AllIds
    /\ product_type_ids = <<>>
    /\ printed = 0
    /\ ids = <<>>
    /\ pt_id = 0
    /\ state = DefaultState
    /\ current_input_hash = NoHash
    /\ item = [product_type_id |-> 0, status |-> "skipped"]
    /\ attempt = 0
    /\ transient_failure = FALSE
    /\ step_result = NoResult
    /\ raw = NoBody
    /\ peer = NoPeer
    /\ retry_backoff_seconds = 1
    /\ api = NoApiCall
    /\ trail = [NoTrail EXCEPT !.mode = "progress"]
    /\ result = InitialResult
    /\ exit_code = 0
    /\ calls = NoCalls
    /\ obs = InitObs
    /\ hist = [e \in Entities |-> InitHist]

SpecProgress == InitProgress /\ [][Next]_vars

\* ------------------------------------------------------------- SpecStop
\* Spec with the history of the durable stops kept in `trail`
InitStop ==
    /\ pt = [e \in Entities |-> [name |-> "pt", updated |-> 1]]
    /\ description = [e \in Entities |-> << TextLine("notes") >>]
    /\ pc = "idle"
    /\ run = 0
    /\ max_retries = 0
    /\ stage_to_id = AllIds
    /\ product_type_ids = <<>>
    /\ printed = 0
    /\ ids = <<>>
    /\ pt_id = 0
    /\ state = DefaultState
    /\ current_input_hash = NoHash
    /\ item = [product_type_id |-> 0, status |-> "skipped"]
    /\ attempt = 0
    /\ transient_failure = FALSE
    /\ step_result = NoResult
    /\ raw = NoBody
    /\ peer = NoPeer
    /\ retry_backoff_seconds = 1
    /\ api = NoApiCall
    /\ trail = [NoTrail EXCEPT !.mode = "stop"]
    /\ result = InitialResult
    /\ exit_code = 0
    /\ calls = NoCalls
    /\ obs = InitObs
    /\ hist = [e \in Entities |-> InitHist]

SpecStop == InitStop /\ [][Next]_vars

\* ---------------------------------------------------------- SpecApiCall
\* api_call of acunetix_sync_pt.py, lines 69-88: one call with any number
\* of retries in 0..MaxRetriesBound; every request it sends is answered by
\* a status code or fails with a transport error (requests.RequestException).
ApiOutcomes == {"200", "401", "403", "429", "500", "transport"}
all_vars_but_api ==
    <<pt, description, pc, run, max_retries, stage_to_id, product_type_ids, printed, ids,
      pt_id, state, current_input_hash, item, attempt, transient_failure, step_result,
      raw, result, exit_code, calls, obs, hist, peer, retry_backoff_seconds, trail>>

\* the call starts: line 70 and the first iteration of line 71
ApiCallStart ==
    /\ api.pc = "idle"
    /\ \E n \in 0..MaxRetriesBound :
          api' = [NoApiCall EXCEPT !.pc = "request", !.retries = n]
    /\ UNCHANGED all_vars_but_api

\* one iteration of the loop of lines 71-87, and line 88 when the loop is
\* left by the break of line 86
ApiRequest ==
    /\ api.pc = "request"
    /\ \E o \in ApiOutcomes :
          LET a == [api EXCEPT !.seen = Append(api.seen, o)]
              again == [a EXCEPT !.attempt = api.attempt + 1]
          IN api' =
               IF o \in {"401", "403", "transport"}
               THEN \* line 75 raises PermissionError inside the try, line 73
                    \* raises RequestException: both reach the handler of line 83
                    LET e == IF o = "transport" THEN "RequestException"
                                                ELSE "PermissionError"
                    IN IF api.attempt >= api.retries
                       THEN [a EXCEPT !.last = e, !.pc = "RuntimeError"]
                       ELSE [again EXCEPT !.last = e]
               ELSE IF o \in {"429", "500"} /\ api.attempt < api.retries
               THEN again
               ELSE [a EXCEPT !.pc = "returned"]
    /\ UNCHANGED all_vars_but_api

NextApiCall == ApiCallStart \/ ApiRequest
SpecApiCall == Init /\ [][NextApiCall]_vars

\* ---------------------------------------------------------- SpecBackoff
\* One execution of main() with any backoff base.
\* main() starts with every workflow id set, lines 182-229
StartBackoff ==
    /\ pc = "idle"
    /\ run = 0
    /\ \E m \in 0..MaxRetriesBound : max_retries' = m
    /\ \E b \in 1..MaxBackoff : retry_backoff_seconds' = b
    /\ stage_to_id' = AllIds
    /\ run' = run + 1
    /\ result' = InitialResult
    /\ printed' = 0
    /\ product_type_ids' = PtIds
    /\ ids' = PtIds
    /\ pc' = "loop"
    /\ UNCHANGED <<api, trail, peer, raw, pt, description, pt_id, state, current_input_hash, item,
                   attempt, transient_failure, step_result, exit_code, calls, obs, hist>>

NextBackoff ==
    \/ StartBackoff
    \/ BeginEntity
    \/ InvokeStage
    \/ PatchAdvance
    \/ PatchFinal
    \/ FinishRun
SpecBackoff == Init /\ [][NextBackoff]_vars

\* ------------------------------------------------- a batch of entities
\* SpecBatch is one execution over an id list of at most MaxIds ids drawn
\* from BatchEntities (an id may occur twice), in which every DefectDojo
\* request can fail: get_product_type and patch_product_type_state call
\* raise_for_status (lines 67 and 80), and the exception is caught by the
\* handler of line 364.
BatchEntities == {1, 2}
RECURSIVE IdLists(_)
IdLists(n) ==
    IF n = 0 THEN { <<>> }
    ELSE IdLists(n - 1) \cup
         { Append(l, e) : l \in {x \in IdLists(n - 1) : Len(x) = n - 1}, e \in BatchEntities }

InitBatch ==
    /\ pt = [e \in BatchEntities |-> [name |-> "pt", updated |-> 1]]
    /\ description = [e \in BatchEntities |-> << TextLine("notes") >>]
    /\ pc = "idle"
    /\ run = 0
    /\ max_retries = 0
    /\ stage_to_id = AllIds
    /\ product_type_ids = <<>>
    /\ printed = 0
    /\ ids = <<>>
    /\ pt_id = 0
    /\ state = DefaultState
    /\ current_input_hash = NoHash
    /\ item = [product_type_id |-> 0, status |-> "skipped"]
    /\ attempt = 0
    /\ transient_failure = FALSE
    /\ step_result = NoResult
    /\ raw = NoBody
    /\ peer = NoPeer
    /\ retry_backoff_seconds = 1
    /\ api = NoApiCall
    /\ trail = NoTrail
    /\ result = InitialResult
    /\ exit_code = 0
    /\ calls = NoCalls
    /\ obs = InitObs
    /\ hist = [e \in BatchEntities |-> InitHist]

\* main() starts with every workflow id set, lines 182-229
StartBatch ==
    /\ pc = "idle"
    /\ run = 0
    /\ \E m \in 0..MaxRetriesBound : max_retries' = m
    /\ stage_to_id' = AllIds
    /\ run' = run + 1
    /\ result' = InitialResult
    /\ printed' = 0
    /\ \E l \in IdLists(MaxIds) :
          /\ product_type_ids' = l
          /\ ids' = l
    /\ pc' = "loop"
    /\ UNCHANGED <<api, trail, retry_backoff_seconds, peer, raw, pt, description,
                   pt_id, state, current_input_hash, item, attempt,
                   transient_failure, step_result, exit_code, calls, obs, hist>>

\* lines 232-234 and 364-371: get_product_type raises; the item is reported
\* with status error and the loop goes on with the next id
FetchFails ==
    /\ pc = "loop"
    /\ ids # <<>>
    /\ pt_id' = Head(ids)
    /\ ids' = Tail(ids)
    /\ item' = [product_type_id |-> Head(ids), status |-> "error"]
    /\ result' = Aggregate(result, item')
    /\ calls' = NoCalls
    /\ obs' = [InitObs EXCEPT !.raised = TRUE]
    /\ UNCHANGED <<api, trail, retry_backoff_seconds, peer, raw, pt, description, pc,
                   run, max_retries, stage_to_id, product_type_ids,
                   printed, state, current_input_hash, attempt, transient_failure,
                   step_result, exit_code, hist>>

\* lines 255, 269, 349 or 363 and 364-371: patch_product_type_state raises
\* (its GET or its PATCH failed); nothing is written, the item is reported
\* with status error and the loop goes on with the next id
PatchFails ==
    /\ pc \in {"skip_patch", "stop_patch", "adv_patch", "final_patch"}
    /\ item' = [item EXCEPT !.status = "error"]
    /\ result' = Aggregate(result, item')
    /\ obs' = [obs EXCEPT !.raised = TRUE]
    /\ pc' = "loop"
    /\ UNCHANGED <<api, trail, retry_backoff_seconds, peer, raw, pt, description, run,
                   max_retries, stage_to_id, product_type_ids,
                   printed, ids, pt_id, state, current_input_hash, attempt,
                   transient_failure, step_result, exit_code, calls, hist>>

NextBatch ==
    \/ StartBatch
    \/ BeginEntity
    \/ FetchFails
    \/ InvokeStage
    \/ PatchAdvance
    \/ PatchFinal
    \/ PatchSkip
    \/ PatchStop
    \/ PatchFails
    \/ FinishRun

SpecBatch == InitBatch /\ [][NextBatch]_vars

\* ----------------------------------------------------------- SpecBudget
\* one execution over a list of ids with the stage invocations counted in
\* `trail`; the DefectDojo calls return normally, as in Spec (a failing call
\* ends the processing of its product type and invokes no stage)
InitBudget ==
    /\ pt = [e \in BatchEntities |-> [name |-> "pt", updated |-> 1]]
    /\ description = [e \in BatchEntities |-> << TextLine("notes") >>]
    /\ pc = "idle"
    /\ run = 0
    /\ max_retries = 0
    /\ stage_to_id = AllIds
    /\ product_type_ids = <<>>
    /\ printed = 0
    /\ ids = <<>>
    /\ pt_id = 0
    /\ state = DefaultState
    /\ current_input_hash = NoHash
    /\ item = [product_type_id |-> 0, status |-> "skipped"]
    /\ attempt = 0
    /\ transient_failure = FALSE
    /\ step_result = NoResult
    /\ raw = NoBody
    /\ peer = NoPeer
    /\ retry_backoff_seconds = 1
    /\ api = NoApiCall
    /\ trail = [NoTrail EXCEPT !.mode = "budget"]
    /\ result = InitialResult
    /\ exit_code = 0
    /\ calls = NoCalls
    /\ obs = InitObs
    /\ hist = [e \in BatchEntities |-> InitHist]

\* line 229 for lists of n ids: the one that names the entities in turn and
\* the one that names the same entity n times (an id given twice has its
\* entity processed twice); the shorter lists are their prefixes
TurnList(n) == [i \in 1..n |-> IF i % 2 = 1 THEN 1 ELSE 2]
SameList(n) == [i \in 1..n |-> 1]

StartBudget ==
    /\ pc = "idle"
    /\ run = 0
    /\ \E m \in 0..MaxRetriesBound : max_retries' = m
    /\ stage_to_id' = AllIds
    /\ run' = run + 1
    /\ result' = InitialResult
    /\ printed' = 0
    /\ \E l \in {TurnList(MaxIds), SameList(MaxIds)} :
          /\ product_type_ids' = l
          /\ ids' = l
    /\ pc' = "loop"
    /\ UNCHANGED <<api, trail, retry_backoff_seconds, peer, raw, pt, description,
                   pt_id, state, current_input_hash, item, attempt,
                   transient_failure, step_result, exit_code, calls, obs, hist>>

NextBudget ==
    \/ StartBudget
    \/ BeginEntity
    \/ InvokeStage
    \/ PatchAdvance
    \/ PatchFinal
    \/ PatchSkip
    \/ PatchStop
    \/ FinishRun

SpecBudget == InitBudget /\ [][NextBudget]_vars
\* every step of main() returns: each network call has the timeout of line
\* 193 and each sleep is finite
SpecBudgetLive == SpecBudget /\ WF_vars(NextBudget)

\* ------------------------------------------------ the process is stopped
\* SpecCrash adds the stop of the process (kill, power loss) between two
\* stage invocations of a product type: after a stage returned success,
\* either before the state write of line 349 (pc = adv_patch) or after it
\* and before the next stage is invoked.  Nothing is printed, the memory of
\* the process is lost and the stored descriptions stay as they are.
BetweenStages ==
    \/ pc = "adv_patch"
    \/ pc = "invoke" /\ attempt = 0 /\ calls.last # None
Crash ==
    /\ BetweenStages
    /\ hist' = [hist EXCEPT ![pt_id].crash =
                   [completed |-> calls.last, flushed |-> (pc = "invoke"),
                    fp |-> current_input_hash]]
    /\ pc' = "idle"
    /\ exit_code' = 1
    /\ result' = InitialResult
    /\ ids' = <<>>
    /\ pt_id' = 0
    /\ state' = DefaultState
    /\ current_input_hash' = NoHash
    /\ item' = [product_type_id |-> 0, status |-> "skipped"]
    /\ attempt' = 0
    /\ transient_failure' = FALSE
    /\ step_result' = NoResult
    /\ raw' = NoBody
    /\ calls' = NoCalls
    /\ obs' = InitObs
    /\ UNCHANGED <<api, trail, retry_backoff_seconds, peer, pt, description, run,
                   max_retries, stage_to_id, product_type_ids,
                   printed>>

NextCrash == Next \/ Crash
SpecCrash == Init /\ [][NextCrash]_vars

\* ------------------------------------- state lines of another writer
\* SpecForeign starts from a description whose state line was not written by
\* the orchestrator: its current_stage names no stage of the list.  The
\* stored input_hash either equals the fingerprint of the product type or
\* is absent.
ForeignStates ==
    { [DefaultState EXCEPT !.current_stage = "WF_X", !.input_hash = h] :
         h \in {input_hash_for_pt([name |-> "pt", updated |-> 1]), NoHash} }

InitForeign ==
    /\ pt = [e \in Entities |-> [name |-> "pt", updated |-> 1]]
    /\ \E f \in ForeignStates :
          description = [e \in Entities |-> << TextLine("notes"), StateLine(f) >>]
    /\ pc = "idle"
    /\ run = 0
    /\ max_retries = 0
    /\ stage_to_id = AllIds
    /\ product_type_ids = <<>>
    /\ printed = 0
    /\ ids = <<>>
    /\ pt_id = 0
    /\ state = DefaultState
    /\ current_input_hash = NoHash
    /\ item = [product_type_id |-> 0, status |-> "skipped"]
    /\ attempt = 0
    /\ transient_failure = FALSE
    /\ step_result = NoResult
    /\ raw = NoBody
    /\ peer = NoPeer
    /\ retry_backoff_seconds = 1
    /\ api = NoApiCall
    /\ trail = NoTrail
    /\ result = InitialResult
    /\ exit_code = 0
    /\ calls = NoCalls
    /\ obs = InitObs
    /\ hist = [e \in Entities |-> InitHist]

SpecForeign == InitForeign /\ [][Next]_vars

\* ------------------------------------------- the classifier on its own
\* SpecClassify applies is_transient_result and the retry test of line 316
\* to every step result with at most MaxErrors error descriptors.
Descriptors == { {}, {"401"}, {"503"}, {"rate", "invalid"} }
RECURSIVE ErrorLists(_)
ErrorLists(n) ==
    IF n = 0 THEN { <<>> }
    ELSE ErrorLists(n - 1) \cup
         { Append(l, d) : l \in {x \in ErrorLists(n - 1) : Len(x) = n - 1}, d \in Descriptors }
ClassifyInputs ==
    [ok : BOOLEAN, status : {"success", "error", "timeout"}, errors : ErrorLists(MaxErrors)]

InitClassify ==
    /\ pt = [e \in Entities |-> [name |-> "pt", updated |-> 1]]
    /\ description = [e \in Entities |-> << TextLine("notes") >>]
    /\ pc = "classify"
    /\ run = 1
    /\ max_retries \in 0..MaxRetriesBound
    /\ stage_to_id = AllIds
    /\ product_type_ids = <<>>
    /\ printed = 0
    /\ ids = <<>>
    /\ pt_id = 1
    /\ state = DefaultState
    /\ current_input_hash = NoHash
    /\ item = [product_type_id |-> 1, status |-> "skipped"]
    /\ attempt \in 0..max_retries
    /\ transient_failure = FALSE
    /\ step_result \in ClassifyInputs
    /\ raw = NoBody
    /\ peer = NoPeer
    /\ retry_backoff_seconds = 1
    /\ api = NoApiCall
    /\ trail = NoTrail
    /\ result = InitialResult
    /\ exit_code = 0
    /\ calls = NoCalls
    /\ obs = InitObs
    /\ hist = [e \in Entities |-> InitHist]

\* lines 315-322 for the result held in step_result
Classify ==
    /\ pc = "classify"
    /\ transient_failure' = is_transient_result(step_result)
    /\ pc' = IF ~StepOk(step_result) /\ transient_failure' /\ CanRetry(attempt, max_retries)
             THEN "retry" ELSE "break"
    /\ UNCHANGED <<api, trail, retry_backoff_seconds, peer, raw, pt, description, run,
                   max_retries, stage_to_id, product_type_ids, ids, pt_id, state,
                   current_input_hash, item, attempt, step_result, result,
                   exit_code, printed, calls, obs, hist>>

NextClassify == Classify
SpecClassify == InitClassify /\ [][NextClassify]_vars

\* ------------------------------------------- the normaliser on its own
\* SpecNormalize applies normalize_workflow_result to every response body
\* built from Objects at its three unwrap locations, and to a body that is
\* no JSON object.
Objects == { NoObj, EmptyObj,
             [EmptyObj EXCEPT !.has_ok = TRUE, !.ok = TRUE],
             ResultObj(TRUE, "success", <<>>),
             ResultObj(FALSE, "error", << {"401"} >>) }
Bodies ==
    { [kind |-> "dict", self |-> s, data0json |-> d, json |-> j] :
         s \in {o \in Objects : o.isdict}, d \in Objects, j \in Objects }
    \cup { [kind |-> "list", self |-> NoObj, data0json |-> NoObj, json |-> NoObj] }

InitNormalize ==
    /\ pt = [e \in Entities |-> [name |-> "pt", updated |-> 1]]
    /\ description = [e \in Entities |-> << TextLine("notes") >>]
    /\ pc = "normalize"
    /\ run = 1
    /\ max_retries = 0
    /\ stage_to_id = AllIds
    /\ product_type_ids = PtIds
    /\ printed = 0
    /\ ids = <<>>
    /\ pt_id = PtIds[1]
    /\ state = DefaultState
    /\ current_input_hash = NoHash
    /\ item = [product_type_id |-> PtIds[1], status |-> "skipped"]
    /\ attempt = 0
    /\ transient_failure = FALSE
    /\ step_result = NoResult
    /\ raw \in Bodies
    /\ peer = NoPeer
    /\ retry_backoff_seconds = 1
    /\ api = NoApiCall
    /\ trail = NoTrail
    /\ result = InitialResult
    /\ exit_code = 0
    /\ calls = NoCalls
    /\ obs = InitObs
    /\ hist = [e \in Entities |-> InitHist]

\* line 127: the body of the response is normalised
Normalize ==
    /\ pc = "normalize"
    /\ step_result' = normalize_workflow_result(raw)
    /\ pc' = "normalized"
    /\ UNCHANGED <<api, trail, retry_backoff_seconds, peer, raw, pt, description, run,
                   max_retries, stage_to_id, product_type_ids,
                   printed, ids, pt_id, state, current_input_hash, item, attempt,
                   transient_failure, result, exit_code, calls, obs, hist>>

NextNormalize == Normalize
SpecNormalize == InitNormalize /\ [][NextNormalize]_vars

\* ------------------------------------------------ the codec on its own
\* SpecCodec applies one state write (lines 71-80) to every description of at
\* most MaxLines lines drawn from CodecLines.
CodecStates == {DefaultState, [DefaultState EXCEPT !.current_stage = STAGES[2]]}
CodecLines ==
    { TextLine("notes"),                                   \* "notes"
      TextLine(""),                                        \* ""
      [TextLine("notes") EXCEPT !.lead = 1],               \* " notes"
      StateLine(DefaultState),                             \* "autojp_state:{...}"
      [StateLine(DefaultState) EXCEPT !.lead = 1],         \* " autojp_state:{...}"
      [StateLine(DefaultState) EXCEPT !.body = "garbage"]  \* "autojp_state:garbage"
    }
RECURSIVE CodecDescriptions(_)
CodecDescriptions(n) ==
    IF n = 0 THEN { <<>> }
    ELSE CodecDescriptions(n - 1) \cup
         { Append(d, l) : d \in {x \in CodecDescriptions(n - 1) : Len(x) = n - 1},
                          l \in CodecLines }

InitCodec ==
    /\ pt = [e \in Entities |-> [name |-> "pt", updated |-> 1]]
    /\ \E d \in CodecDescriptions(MaxLines) : description = [e \in Entities |-> d]
    /\ pc = "codec"
    /\ run = 1
    /\ max_retries = 0
    /\ stage_to_id = AllIds
    /\ product_type_ids = PtIds
    /\ printed = 0
    /\ ids = <<>>
    /\ pt_id = PtIds[1]
    /\ state \in CodecStates
    /\ current_input_hash = NoHash
    /\ item = [product_type_id |-> PtIds[1], status |-> "skipped"]
    /\ attempt = 0
    /\ transient_failure = FALSE
    /\ step_result = NoResult
    /\ raw = NoBody
    /\ peer = NoPeer
    /\ retry_backoff_seconds = 1
    /\ api = NoApiCall
    /\ trail = NoTrail
    /\ result = InitialResult
    /\ exit_code = 0
    /\ calls = NoCalls
    /\ obs = InitObs
    /\ hist = [e \in Entities |-> InitHist]

\* patch_product_type_state, lines 71-80, applied to the stored description
Encode ==
    /\ pc = "codec"
    /\ description' = Patched
    /\ obs' = [obs EXCEPT !.before = description[pt_id], !.given = state]
    /\ pc' = "written"
    /\ UNCHANGED <<api, trail, retry_backoff_seconds, peer, raw, pt, run, max_retries,
                   stage_to_id, product_type_ids, printed, ids,
                   pt_id, state, current_input_hash, item, attempt, transient_failure,
                   step_result, result, exit_code, calls, hist>>

\* lines 234-241: the next fetch decodes the state from the description
Decode ==
    /\ pc = "written"
    /\ state' = read_state_from_description(description[pt_id])
    /\ pc' = "decoded"
    /\ UNCHANGED <<api, trail, retry_backoff_seconds, peer, raw, pt, description, run,
                   max_retries, stage_to_id, product_type_ids,
                   printed, ids, pt_id, current_input_hash, item, attempt,
                   transient_failure, step_result, result, exit_code, calls, obs, hist>>

NextCodec == Encode \/ Decode
SpecCodec == InitCodec /\ [][NextCodec]_vars

\* ------------------------------------------------------------------ claims
\* the processing of pt_id has ended and the next has not begun
Ended == pc = "loop" /\ pt_id # 0
Stored == StoredState(pt_id)
LastItem == result.items[Len(result.items)]

C3_ResumeAlways ==
    (Ended /\ obs.resume # None) => calls.first = obs.resume

\* C3 amended: after a stage S failed with a fatal classification, the next
\* run with the same fingerprint invokes no stage before S; it invokes S
\* first unless the stored state carries a last_error with
\* retry_count >= maxRetries, in which case it invokes no stage at all.
C3_Resume ==
    obs.resume # None =>
        /\ calls.first \in {None, obs.resume}
        /\ calls.last # None => IndexOf(calls.last) >= IndexOf(obs.resume)
        /\ obs.stop => calls.first = None
        /\ (Ended /\ ~obs.stop) => calls.first = obs.resume
C3_Witness ==
    /\ Ended /\ obs.resume = STAGES[2] /\ ~obs.stop
    /\ calls.first = STAGES[2]

\* C4: when a stage used up its transient retries, the persisted state has
\* pipeline_status = error and current_stage = that stage.
C4_ExhaustedIsError ==
    (Ended /\ obs.exhausted # None /\ ~obs.raised) =>
        /\ Stored.pipeline_status = "error"
        /\ Stored.current_stage = obs.exhausted

\* C5: after a stage exhausted its transient retries, the next run with the
\* same fingerprint invokes that stage again (and nothing before it), and
\* if the last stage then succeeds the persisted state is the terminal
\* success for that fingerprint.
C5_SelfHeal ==
    (Ended /\ obs.heal # None) =>
        /\ calls.first = obs.heal
        /\ FINAL_STAGE \in obs.succeeded =>
              /\ Stored.pipeline_status = "success"
              /\ Stored.last_success_input_hash = current_input_hash

\* C6: a stage whose every invocation returns a transient failure is
\* invoked exactly max_retries + 1 times in the run, and no stage is ever
\* invoked more often than that.
C6_BoundedRetries ==
    /\ calls.count <= max_retries + 1
    /\ (Ended /\ calls.last # None /\ obs.onlyTransient) => calls.count = max_retries + 1
C6_Witness ==
    /\ Ended /\ calls.last # None /\ obs.onlyTransient
    /\ max_retries = MaxRetriesBound
    /\ calls.count = MaxRetriesBound + 1

\* C7: a failed step result with an authentication/validation marker in any
\* descriptor of its error list is classified fatal and is not retried,
\* whatever the other descriptors carry and whatever their order.
C7_FatalShortCircuit ==
    (pc \in {"retry", "break"} /\ ~StepOk(step_result) /\ HasAuthMarker(step_result.errors)) =>
        /\ transient_failure = FALSE
        /\ pc = "break"

\* C8: when the fingerprint differs from the stored input_hash while the
\* stored current_stage is set, the run starts from the first stage with
\* retry_count 0, last_success_stage and last_error cleared.
C8_ResetOnChange ==
    obs.resetCase =>
        /\ pc \notin {"skip_patch", "stop_patch"}
        /\ calls.first \in {None, STAGES[1]}
        /\ (pc = "invoke" /\ calls.first = None) =>
              /\ state.current_stage = None
              /\ state.retry_count = 0
              /\ state.last_success_stage = None
              /\ state.last_error = NoError
        /\ Ended => calls.first = STAGES[1]
C8_Witness ==
    /\ Ended /\ obs.resetCase /\ calls.first = STAGES[1]

\* C9: the report is ok and the exit code 0 only if no item ended failed or
\* error, by any path.
C9_OverallSuccess ==
    (pc = "idle" /\ run > 0 /\
     \E i \in 1..Len(result.items) : result.items[i].status \in {"failed", "error"}) =>
        /\ result.ok = FALSE
        /\ result.status = "error"
        /\ exit_code # 0

\* C10: after every stage attempt that ends, the updated retry_count,
\* last_error, pipeline_status and current_stage are written to the product
\* type before the next stage is invoked or the processing ends.
Progress(st) == <<st.retry_count, st.last_error, st.pipeline_status, st.current_stage>>
C10_PersistAfterStep ==
    /\ (Ended /\ calls.last # None) => Progress(Stored) = Progress(state)
    /\ (pc = "invoke" /\ attempt = 0 /\ calls.last # None) => Progress(Stored) = Progress(state)

\* C19 as claimed: the description produced by write_state_to_description
\* holds every non-state line of the description it was given, unchanged
\* and in order, and exactly one line that starts with the state marker.
NonStateLines(d) == SelectSeq(d, LAMBDA line : ~IsStateLine(line))
StateLines(d) == SelectSeq(d, IsStateLine)
C19_NonStateLinesKept ==
    pc = "written" =>
        /\ NonStateLines(description[pt_id]) = NonStateLines(obs.before)
        /\ Len(StateLines(description[pt_id])) = 1

\* C17: when one of the four workflow ids is missing the execution ends at
\* once: it fetches no product type, invokes no stage and writes no state;
\* it prints one report with ok = false, status = error and the error
\* missing_workflow_ids naming the missing stages, and exits non-zero.
MissingIn(cfg) == {s \in StageSet : cfg[s] = ""}
C17_ConfigErrorAborts ==
    [][MissingIn(stage_to_id') # {} =>
          /\ pc' = "idle"
          /\ description' = description
          /\ pt_id' = 0
          /\ calls' = NoCalls
          /\ printed' = 1
          /\ result'.ok = FALSE
          /\ result'.status = "error"
          /\ result'.items = <<>>
          /\ result'.errors = << [code |-> "missing_workflow_ids",
                                  details |-> MissingIn(stage_to_id')] >>
          /\ exit_code' # 0]_vars
C17_Witness ==
    /\ pc = "idle" /\ run = 2 /\ MissingIn(stage_to_id) # {}
    /\ StateLines(description[PtIds[1]]) # <<>>
    /\ printed = 1 /\ exit_code = 1 /\ result.status = "error"

\* C18 as claimed: every execution that terminates has printed exactly one
\* report, whatever the path, and the report counts one item per product
\* type processed.
C18_OneReport ==
    (pc = "idle" /\ run > 0) =>
        /\ printed = 1
        /\ result.processed = Len(result.items)

AfterSuccessWrite ==
    \/ pc = "invoke" /\ attempt = 0 /\ calls.last # None
    \/ Ended /\ FINAL_STAGE \in obs.succeeded
C20_RetryCountReset ==
    AfterSuccessWrite => (Stored.retry_count = 0 /\ Stored.last_error = NoError)
C20_Witness ==
    /\ pc = "invoke" /\ attempt = 0 /\ calls.last = STAGES[1] /\ calls.count = 3
    /\ Stored.retry_count = 0 /\ Stored.last_success_stage = STAGES[1]

\* C12 as claimed: the stored last_success_input_hash changes only in the
\* step that follows the success of the last stage, and then every stage
\* of the list has succeeded within that run.
StagesFrom(stage) == {STAGES[i] : i \in IndexOf(stage)..Len(STAGES)}
HashChanged(e) ==
    StoredState(e)'.last_success_input_hash # StoredState(e).last_success_input_hash
C12_AllStagesInRun ==
    [][\A e \in Entities : HashChanged(e) =>
            /\ pc = "final_patch" /\ e = pt_id
            /\ obs.succeeded = StageSet]_vars

\* C12 amended: the stored last_success_input_hash changes only in the step
\* that follows the success of the last stage; it becomes the fingerprint
\* of the run, and the stages that succeeded within that run are exactly
\* the stages from the first one the run invoked (the first stage, or the
\* stored resume point) to the last.
C12_HashOnlyAtFinal ==
    [][\A e \in Entities : HashChanged(e) =>
            /\ pc = "final_patch" /\ e = pt_id
            /\ FINAL_STAGE \in obs.succeeded
            /\ calls.first # None
            /\ obs.succeeded = StagesFrom(calls.first)
            /\ StoredState(e)'.last_success_input_hash = current_input_hash]_vars
C12_Witness ==
    /\ Ended /\ obs.succeeded = StagesFrom(STAGES[2])
    /\ Stored.last_success_input_hash = current_input_hash

\* C13: once a stage has succeeded for a product type, no run invokes that
\* stage again for it until the product type changes.
C13_NoDuplicateWork == ~obs.dup
C13_Witness ==
    /\ Ended /\ run = 2 /\ calls.first = STAGES[3]
    /\ hist[pt_id].done = StageSet /\ ~obs.dup

\* C11 as claimed: every state the orchestrator writes to a product type
\* has current_stage null or one of WF_A..WF_D, whatever state line was
\* decoded at the start of the run.
C11_CurrentStageValid ==
    [][\A e \in Entities :
          description'[e] # description[e] =>
              StoredState(e)'.current_stage \in StageSet \cup {None}]_vars

\* C14 as claimed: when the process stopped between two stage invocations of
\* a product type, the stored state has last_success_stage = the stage just
\* completed and current_stage = its successor, and a rerun with the same
\* fingerprint starts at that successor.
Successor(stage) == next_stage([current_stage |-> stage])
CrashOf(e) == hist[e].crash
C14_CrashAnywhere ==
    /\ \A e \in Entities :
          CrashOf(e).completed # None =>
              /\ StoredState(e).last_success_stage = CrashOf(e).completed
              /\ StoredState(e).current_stage = Successor(CrashOf(e).completed)
    /\ (Ended /\ obs.crash.completed # None) =>
              calls.first = Successor(obs.crash.completed)

\* C14 amended: when the process stopped after the state write that follows
\* a completed stage and before the next stage was invoked, the stored
\* state has last_success_stage = that stage and current_stage = its
\* successor, and a rerun with the same fingerprint invokes the successor
\* first.  When it stopped between the completion of the stage and that
\* write, the rerun invokes no stage beyond the successor: it may invoke
\* the completed stage again, but it skips none.
C14_CrashConsistency ==
    /\ \A e \in Entities :
          (CrashOf(e).completed # None /\ CrashOf(e).flushed) =>
              /\ StoredState(e).last_success_stage = CrashOf(e).completed
              /\ StoredState(e).current_stage = Successor(CrashOf(e).completed)
              /\ StoredState(e).input_hash = CrashOf(e).fp
    /\ (obs.crash.completed # None /\ calls.first # None) =>
              IndexOf(calls.first) <= IndexOf(Successor(obs.crash.completed))
    /\ (obs.crash.completed # None /\ obs.crash.flushed) =>
              /\ calls.first \in {None, Successor(obs.crash.completed)}
              /\ calls.last # None =>
                    IndexOf(calls.last) > IndexOf(obs.crash.completed)
              /\ Ended => calls.first = Successor(obs.crash.completed)
C14_Witness ==
    /\ Ended /\ obs.crash.completed = STAGES[2] /\ obs.crash.flushed
    /\ calls.first = STAGES[3]

\* C16: for every id list each id yields exactly one item of the report, in
\* input order, and a failure or exception while one product type is
\* processed (fetch, stage invocation, state write) does not keep the
\* following ones from being processed: the execution ends only with the
\* whole list reported.
ItemIds == [i \in 1..Len(result.items) |-> result.items[i].product_type_id]
C16_FailureIsolation ==
    /\ pc = "loop" => ItemIds \o ids = product_type_ids
    /\ pc \notin {"idle", "loop"} => ItemIds \o <<pt_id>> \o ids = product_type_ids
    /\ (pc = "idle" /\ run > 0) =>
          /\ printed = 1
          /\ ItemIds = product_type_ids
          /\ result.processed = Len(product_type_ids)
C16_Witness ==
    /\ pc = "idle" /\ printed = 1 /\ product_type_ids = <<2, 1>>
    /\ result.items = << [product_type_id |-> 2, status |-> "error"],
                         [product_type_id |-> 1, status |-> "success"] >>

\* C30 as claimed: decoding the description produced by
\* write_state_to_description(d, s) gives s back, for every description d,
\* also when d holds state lines or lines that differ from a state line
\* only by leading whitespace.
C30_RoundTrip ==
    pc = "decoded" => state = obs.given

\* C21 as claimed: the retry_count written after a failed stage is the
\* number of consecutive failed attempts at that stage since the product
\* type's last stage success, counted across runs: the failures stored by
\* an earlier run with the same fingerprint plus those of this run.
FailureWritten ==
    /\ Ended /\ ~obs.raised /\ ~obs.stop
    /\ calls.last # None /\ calls.last \notin obs.succeeded
C21_RetryCountAcrossRuns ==
    FailureWritten =>
        Stored.retry_count =
            (IF obs.succeeded = {} THEN obs.prior ELSE 0) + calls.count

\* C22 as claimed: when a stage used up its transient retries with
\* max_retries = N (N + 1 failed invocations), the retry_count written for
\* the product type is N.
C22_ExhaustedRetryCount ==
    (FailureWritten /\ obs.exhausted # None /\ obs.onlyTransient) =>
        /\ calls.count = max_retries + 1
        /\ Stored.retry_count = max_retries

\* C24: within one run and one product type the first stage invoked is the
\* resolved current stage (the first stage when current_stage is null), a
\* stage is invoked again only while it has not succeeded, after STAGES[i]
\* succeeded the next stage invoked is STAGES[i+1], and nothing is invoked
\* after the last stage succeeded.
C24_StageOrder ==
    [][/\ (calls' # calls /\ calls'.last # None) =>
            IF calls.last = None
            THEN calls'.last = (IF state.current_stage = None THEN STAGES[1]
                                ELSE state.current_stage)
            ELSE IF calls'.last = calls.last
            THEN calls.last \notin obs.succeeded
            ELSE /\ calls.last \in obs.succeeded
                 /\ IndexOf(calls'.last) = IndexOf(calls.last) + 1
       /\ FINAL_STAGE \in obs.succeeded => calls' \in {calls, NoCalls}]_vars
C24_Witness ==
    /\ pc = "loop" /\ pt_id # 0 /\ Len(result.items) = 2
    /\ calls = [first |-> STAGES[2], last |-> STAGES[4], count |-> 1]
    /\ obs.succeeded = {STAGES[2], STAGES[3], STAGES[4]}

\* C29: a stage invocation that raises a connectivity/timeout exception is
\* invoked again while attempt < max_retries; when the budget is used up,
\* or when any other exception is raised, the exception ends the stage and
\* the processing of the product type without another invocation.
C29_RaisedClassification ==
    /\ (obs.exc = "transient" /\ ~obs.raised) =>
          (pc = "invoke" /\ attempt \in 1..max_retries /\ calls.count = attempt)
    /\ (obs.exc = "transient" /\ obs.raised) =>
          (pc = "loop" /\ attempt = max_retries /\ item.status = "error")
    /\ obs.exc = "other" =>
          (pc = "loop" /\ obs.raised /\ item.status = "error" /\ calls.count = attempt + 1)
C29_Witness ==
    /\ pc = "loop" /\ obs.exc = "transient" /\ obs.raised
    /\ max_retries = MaxRetriesBound /\ calls.count = MaxRetriesBound + 1

\* C27 as claimed: when at least one of the unwrap locations of a response
\* (the object itself, data[0].json, json) is an object with both ok and
\* status, the normalised result carries the ok and status of such an
\* object and is not the invalid-response failure, also when another
\* location is present without those fields.
Exposes(o) == o.isdict /\ o.has_ok /\ o.has_status
Locations(body) == {body.self, body.data0json, body.json}
C27_NormaliserSearch ==
    (pc = "normalized" /\ raw.kind = "dict" /\ \E o \in Locations(raw) : Exposes(o)) =>
        \E o \in Locations(raw) :
            /\ Exposes(o)
            /\ step_result = [ok |-> o.ok, status |-> o.status, errors |-> o.errors]

\* C26 as claimed: a response body without a recognisable result object, a
\* body that is not a JSON object included, never ends the processing of
\* the product type by an exception: the step is recorded as a failure with
\* the invalid_workflow_response error, and last_error and current_stage of
\* that stage are persisted.
Malformed(body) == body.kind # "dict" \/ ~\E o \in Locations(body) : Exposes(o)
C26_MalformedHandled ==
    (pc \in {"final_patch", "loop"} /\ pt_id # 0 /\ raw.kind # "none" /\ Malformed(raw)) =>
        /\ ~obs.raised
        /\ step_result = default_result
        /\ state.last_error = [stage |-> calls.last, status |-> "error",
                               errors |-> default_result.errors]
        /\ state.current_stage = calls.last
        /\ Ended => /\ Stored.last_error = state.last_error
                    /\ Stored.current_stage = calls.last

\* C25 as claimed: once a stage S failed with a 401/403 signal, in a step
\* result or as a raised HTTP failure, S is not invoked again and no other
\* stage is invoked in that run, and the next run with the same fingerprint
\* does not start at a stage after the one the previous run failed at.
C25_AuthStops ==
    /\ obs.authAt # None =>
          /\ pc \in {"final_patch", "loop"}
          /\ calls.last = obs.authAt
          /\ calls.count = attempt + 1
    /\ LET s == IF obs.resume # None THEN obs.resume ELSE obs.heal
       IN (s # None /\ calls.first # None) => IndexOf(calls.first) <= IndexOf(s)

\* C28: a failed result whose status is not timeout and whose descriptors
\* carry neither an authentication/validation marker nor a transient marker
\* (an empty error list included) is fatal: the stage is not invoked again
\* in that run (it is invoked exactly once when that is its first result),
\* no later stage is invoked, and the pipeline is marked failed at that
\* stage, in memory and, once written, in the stored state.
Unmarked(errors) ==
    \A i \in 1..Len(errors) : errors[i] \cap (AUTH_MARKERS \cup TRANSIENT_KEYWORDS) = {}
DefaultFatal(r) ==
    r # NoResult /\ ~(r.ok /\ r.status \in SUCCESS_STATUSES) /\ r.status # "timeout"
        /\ Unmarked(r.errors)
C28_DefaultFatal ==
    DefaultFatal(step_result) =>
        /\ pc \in {"final_patch", "loop"}
        /\ transient_failure = FALSE
        /\ calls.count = attempt + 1
        /\ state.pipeline_status = "failed"
        /\ state.current_stage = calls.last
        /\ state.last_error.stage = calls.last
        /\ item.status = "failed"
        /\ Ended => /\ Stored.pipeline_status = "failed"
                    /\ Stored.current_stage = calls.last
                    /\ LastItem.status = "failed"
C28_Witness ==
    /\ Ended /\ step_result = [ok |-> FALSE, status |-> "error", errors |-> <<>>]
    /\ max_retries = MaxRetriesBound /\ calls.count = 1
    /\ Stored.pipeline_status = "failed" /\ Stored.current_stage = calls.last

\* C23: with two executions interleaved on the same product type no state
\* write is ever rejected: every call of patch_product_type_state, by either
\* execution, leaves the stored state equal to the in-memory state of the
\* caller, whatever the other execution stored in the meantime.  So one
\* execution's persisted state can be overwritten by the other's stale
\* state (C23_Witness: the stored current_stage moved backwards and the
\* first stage was invoked by both).
C23_NoWriteRejected ==
    [][ /\ (pc \in {"skip_patch", "stop_patch", "adv_patch", "final_patch"} /\ pc' # pc)
            => StoredState(pt_id)' = state
        /\ (peer.pc \in {"skip_patch", "stop_patch", "adv_patch", "final_patch"}
            /\ peer'.pc # peer.pc)
            => StoredState(PeerId)' = peer.state ]_vars
C23_Witness ==
    /\ pc = "invoke" /\ pt_id = PeerId
    /\ obs.succeeded = {STAGES[1], STAGES[2]} /\ state.current_stage = STAGES[3]
    /\ STAGES[1] \in peer.invoked /\ peer.pc = "invoke"
    /\ StoredState(pt_id).current_stage = STAGES[2]
    /\ StoredState(pt_id) = peer.state

\* C31: within the attempt loop of one stage the k-th retry (k = 0, 1, ...)
\* is preceded by a sleep of exactly base * 2^k, whether an exception or a
\* step result caused it; there is one sleep per retry, and the sleeps of
\* one stage add up to at most base * (2^max_retries - 1).
RECURSIVE SumSeq(_)
SumSeq(q) == IF q = <<>> THEN 0 ELSE Head(q) + SumSeq(Tail(q))
C31_ExponentialBackoff ==
    /\ Len(obs.delays) <= max_retries
    /\ pc = "invoke" => Len(obs.delays) = attempt
    /\ \A k \in 1..Len(obs.delays) : obs.delays[k] = retry_backoff_seconds * 2^(k - 1)
    /\ \A k \in 2..Len(obs.delays) : obs.delays[k] = 2 * obs.delays[k - 1]
    /\ SumSeq(obs.delays) <= retry_backoff_seconds * (2^max_retries - 1)
C31_Witness ==
    /\ pc = "invoke" /\ max_retries = MaxRetriesBound /\ attempt = MaxRetriesBound
    /\ retry_backoff_seconds = MaxBackoff
    /\ calls.first = calls.last /\ obs.exc = "transient" /\ step_result # NoResult
    /\ SumSeq(obs.delays) = MaxBackoff * (2^MaxRetriesBound - 1)

\* C39 as claimed: after a state write whose own read found a description
\* that another writer had replaced as a whole, dropping the state line,
\* the description holds exactly one state line, that line decodes to the
\* state that was written, and the non-state lines are those of that read.
C39_SurvivesForeignRewrite ==
    (pc = "written" /\ StateLines(obs.before) = <<>>) =>
        /\ Len(StateLines(description[pt_id])) = 1
        /\ read_state_from_description(description[pt_id]) = obs.given
        /\ NonStateLines(description[pt_id]) = obs.before

\* C36: the pipeline advances past a stage exactly when the normalised
\* result of its latest invocation has ok true and a status among success,
\* skipped, no_changes, already_running and skipped_recent; a result with ok
\* true and another status (ok, timeout) leaves the pipeline at that stage,
\* retried first when it is transient and then recorded as its failure.
LastReturned ==
    /\ pt_id # 0 /\ calls.last # None /\ obs.exc = "none"
    /\ step_result # NoResult /\ raw.kind = "dict"
C36_SuccessCriterion ==
    LastReturned =>
        LET good == step_result.ok /\ step_result.status \in
                       {"success", "skipped", "no_changes", "already_running", "skipped_recent"}
        IN /\ good <=> calls.last \in obs.succeeded
           /\ good <=> state.last_success_stage = calls.last
           /\ good => /\ state.current_stage = next_stage([current_stage |-> calls.last])
                      /\ state.last_error = NoError
                      /\ pc \in {"adv_patch", "final_patch", "invoke", "loop"}
           /\ (~good /\ pc # "invoke") =>
                  /\ pc \in {"final_patch", "loop"}
                  /\ state.current_stage = calls.last
                  /\ state.last_error.stage = calls.last
                  /\ state.last_error.status = step_result.status
                  /\ item.status \in {"failed", "error"}
           /\ (~good /\ pc = "invoke") => (attempt \in 1..max_retries /\ calls.count = attempt)
C36_Witness ==
    /\ Ended /\ calls.first = STAGES[1] /\ calls.last = STAGES[2]
    /\ step_result = [ok |-> TRUE, status |-> "ok", errors |-> <<>>]
    /\ Stored.pipeline_status = "failed" /\ Stored.current_stage = STAGES[2]
    /\ Stored.last_success_stage = STAGES[1]

\* C40 as claimed: in api_call a 401 or 403 response ends the call as an
\* authentication failure without any further request, while 429, 5xx and
\* transport errors are retried; at most retries + 1 requests are sent and
\* the call ends with a response or an error.
C40_ApiCallAuthStops ==
    /\ Len(api.seen) <= api.retries + 1
    /\ api.pc \in {"idle", "request", "returned", "RuntimeError"}
    /\ \A i \in 1..Len(api.seen) :
          /\ api.seen[i] \in {"401", "403"} =>
                (i = Len(api.seen) /\ api.pc # "request" /\ api.pc # "returned"
                 /\ api.last = "PermissionError")
          /\ (api.seen[i] \in {"429", "500", "transport"} /\ i <= api.retries) =>
                (i < Len(api.seen) \/ api.pc = "request")

\* C32 as claimed: a product type is reported skipped_no_change only if
\* every stage has succeeded for it under the current fingerprint and no
\* stage has been invoked for it since the last stage last succeeded.
C32_SkipSoundness ==
    (pc = "skip_patch" /\ item.status = "skipped_no_change") =>
        /\ trail.under[current_input_hash] = StageSet
        /\ ~trail.dirty

\* C33 as claimed: a stage other than the first is invoked only if all the
\* stages before it have succeeded for the product type under the same
\* fingerprint since the last reset, over any number of runs.
C33_NoStageSkipped ==
    (pt_id # 0 /\ calls.last # None) =>
        \A j \in 1..(IndexOf(calls.last) - 1) :
            STAGES[j] \in trail.since /\ STAGES[j] \in trail.under[current_input_hash]

\* C37: for each product type each stage is invoked at most max_retries + 1
\* times in a run, retries after exceptions and after transient results
\* sharing the attempt counter, and an execution over n product types makes
\* at most n * 4 * (max_retries + 1) stage invocations.
C37_BoundedInvocations ==
    /\ calls.count <= max_retries + 1
    /\ attempt <= max_retries
    /\ pc = "adv_patch" => calls.count = attempt + 1
    /\ trail.total <= (Len(product_type_ids) - Len(ids)) * Len(STAGES) * (max_retries + 1)
C37_Witness ==
    /\ pc = "idle" /\ printed = 1 /\ Len(product_type_ids) = MaxIds
    /\ max_retries = MaxRetriesBound
    /\ trail.total = MaxIds * Len(STAGES) * (MaxRetriesBound + 1)
\* C37, termination: under SpecBudgetLive every started run prints its result
C37_Terminates == (pc = "loop") ~> (pc = "idle" /\ printed = 1)

\* C34: whenever the processing of a product type in a run has ended (by
\* success, failed result, raised exception, skip or durable stop), the
\* pipeline_status stored on the product type is not running.
C34_NoLingeringRunning ==
    Ended => Stored.pipeline_status # "running"

\* C35 as stated: once the durable stop applied to a product type, every
\* later run that sees the same fingerprint invokes no stage for it.
C35_StopAbsorbing ==
    (pc # "idle" /\ pt_id # 0 /\ trail.again) => calls = NoCalls

\* C35, amended: the durable stop leaves last_error, retry_count,
\* current_stage and input_hash of the stored state unchanged, and the next
\* run that sees the same fingerprint with a maximum retry count not above
\* the stored retry_count takes the durable stop again and invokes no stage.
StopFrame(before, after) ==
    /\ after.last_error = before.last_error
    /\ after.retry_count = before.retry_count
    /\ after.current_stage = before.current_stage
    /\ after.input_hash = before.input_hash
C35_StopAbsorbingSameLimit ==
    [][/\ (pc = "stop_patch" /\ pc' = "loop") =>
              StopFrame(StoredState(pt_id), StoredState(pt_id)')
       /\ (pc' # "idle" /\ pt_id' # 0 /\ trail'.again /\ max_retries' <= obs'.prior) =>
              /\ calls' = NoCalls
              /\ pc' \in {"stop_patch", "loop"}
              /\ item'.status = "failed"]_vars
C35_Witness ==
    /\ Ended /\ trail.again /\ trail.stopped = current_input_hash
    /\ calls = NoCalls /\ LastItem.status = "failed"
    /\ Stored.last_run_at = run

\* C38: the skip path invokes no stage and leaves current_stage,
\* last_success_stage, last_error, retry_count and last_success_input_hash
\* of the stored state unchanged; the state it writes has input_hash = the
\* fingerprint, pipeline_status = skipped_no_change and last_run_at = now.
SkipFrame(before, after) ==
    /\ after.current_stage = before.current_stage
    /\ after.last_success_stage = before.last_success_stage
    /\ after.last_error = before.last_error
    /\ after.retry_count = before.retry_count
    /\ after.last_success_input_hash = before.last_success_input_hash
C38_SkipFrame ==
    [][/\ pc' = "skip_patch" => calls' = NoCalls
       /\ (pc = "skip_patch" /\ pc' = "loop") =>
              /\ calls' = NoCalls
              /\ SkipFrame(StoredState(pt_id), StoredState(pt_id)')
              /\ StoredState(pt_id)'.input_hash = current_input_hash
              /\ StoredState(pt_id)'.pipeline_status = "skipped_no_change"
              /\ StoredState(pt_id)'.last_run_at = run]_vars
C38_Witness ==
    /\ Ended /\ calls = NoCalls /\ LastItem.status = "skipped_no_change"
    /\ Stored.pipeline_status = "skipped_no_change"
    /\ Stored.last_success_stage = FINAL_STAGE
    /\ Stored.last_run_at = run /\ run > 1

====
